---- MODULE Spec2Model ----
(***************************************************************************)
(* result-tuple: wrapFunction, wrapAsyncFunction, attempt, attemptAsync,   *)
(* ok and fail, which turn a call that may throw or reject into a          *)
(* [result, error] pair.  The library source is the second half of         *)
(* src/src/tests/result-tuple.test.ts (lines 102-153); the form validation *)
(* example is src/README.md lines 205-232.                                 *)
(*                                                                         *)
(* JavaScript values are records tagged by kind.  Objects carry a heap     *)
(* reference (ref) so that identity (===) is record equality; the result   *)
(* pair is a two-element array, whose own identity nothing in the library  *)
(* depends on and which therefore has no ref.  Promises and thenables are  *)
(* not values of the model: a promise never fulfils with one.              *)
(***************************************************************************)
EXTENDS Integers, Sequences, FiniteSets, TLC

\* Longest argument list passed to a wrapped function.
MaxArgs == 2
\* Number of call frames that can be in flight at once.
MaxCalls == 2

VARIABLES frames

vars == <<frames>>

Calls == 1..MaxCalls

-----------------------------------------------------------------------------
(* JavaScript values *)

Undefined == [kind |-> "undefined"]
Null == [kind |-> "null"]
Num(n) == [kind |-> "number", num |-> n]
Str(s) == [kind |-> "string", str |-> s]
\* A plain object literal {...}; props is a record of its own properties.
PlainObject(r, p) == [kind |-> "object", proto |-> "Object", ref |-> r, props |-> p]
\* Object.create(null): an object with no prototype, hence no toString.
BareObject(r) == [kind |-> "object", proto |-> "null", ref |-> r]
\* new Error(message), or a subclass (name is "TypeError", "SyntaxError", ...).
ErrorObj(r, n, m) == [kind |-> "object", proto |-> "Error", ref |-> r, name |-> n, message |-> m]
\* An array literal [a, b, ...].
Arr(xs) == [kind |-> "object", proto |-> "Array", items |-> xs]
\* The two-element array [value, error] of type ResultTuple<T>.
ResultTuple(value, error) == Arr(<<value, error>>)

\* typeof x
TypeOf(x) ==
    CASE x.kind = "undefined" -> "undefined"
      [] x.kind = "null" -> "object"
      [] x.kind = "number" -> "number"
      [] x.kind = "string" -> "string"
      [] x.kind = "object" -> "object"

\* x instanceof Error
InstanceOfError(x) == x.kind = "object" /\ x.proto = "Error"

\* obj.name for a plain object (undefined when the property is missing)
Get(obj, name) == IF name \in DOMAIN obj.props THEN obj.props[name] ELSE Undefined

\* !x
Not(x) ==
    \/ x.kind \in {"undefined", "null"}
    \/ x.kind = "string" /\ x.str = ""
    \/ x.kind = "number" /\ x.num = 0

Digit(d) == CASE d = 0 -> "0" [] d = 1 -> "1" [] d = 2 -> "2" [] d = 3 -> "3" [] d = 4 -> "4"
              [] d = 5 -> "5" [] d = 6 -> "6" [] d = 7 -> "7" [] d = 8 -> "8" [] d = 9 -> "9"

RECURSIVE NatToString(_)
NatToString(n) == IF n < 10 THEN Digit(n) ELSE NatToString(n \div 10) \o Digit(n % 10)

\* Number.prototype.toString for an integer
NumberToString(n) == IF n < 0 THEN "-" \o NatToString(0 - n) ELSE NatToString(n)

\* Error.prototype.toString
ErrorToString(e) == IF e.message = "" THEN e.name ELSE e.name \o ": " \o e.message

\* Does String(x) throw a TypeError?  An object without a prototype has no
\* toString/valueOf; an array joins the string forms of its elements.
RECURSIVE StringThrows(_)
StringThrows(x) ==
    /\ x.kind = "object"
    /\ \/ x.proto = "null"
       \/ x.proto = "Array" /\ \E i \in 1..Len(x.items) : StringThrows(x.items[i])

\* String(x), for x on which it does not throw
RECURSIVE String(_)
RECURSIVE Join(_)
Join(xs) ==
    IF xs = <<>> THEN ""
    ELSE LET h == IF Head(xs).kind \in {"undefined", "null"} THEN "" ELSE String(Head(xs))
         IN IF Len(xs) = 1 THEN h ELSE h \o "," \o Join(Tail(xs))
String(x) ==
    CASE x.kind = "undefined" -> "undefined"
      [] x.kind = "null" -> "null"
      [] x.kind = "number" -> NumberToString(x.num)
      [] x.kind = "string" -> x.str
      [] x.kind = "object" /\ x.proto = "Object" -> "[object Object]"
      [] x.kind = "object" /\ x.proto = "Error" -> ErrorToString(x)
      [] x.kind = "object" /\ x.proto = "Array" -> Join(x.items)

\* Heap references held by a value
RECURSIVE RefsOf(_)
RefsOf(x) ==
    IF x.kind # "object" THEN {}
    ELSE IF x.proto = "Array" THEN UNION {RefsOf(x.items[i]) : i \in 1..Len(x.items)}
    ELSE {x.ref}

-----------------------------------------------------------------------------
(* Completions: how a call, or the underlying operation, ends *)

Return(v) == [type |-> "return", val |-> v]
Throw(v) == [type |-> "throw", val |-> v]
Resolve(v) == [type |-> "resolve", val |-> v]
Reject(v) == [type |-> "reject", val |-> v]
Pending == [type |-> "pending", val |-> Undefined]
None == [type |-> "none", val |-> Undefined]

\* The TypeError the runtime throws when String(x) cannot convert x.
ConversionError(fresh) == ErrorObj(fresh, "TypeError", "Cannot convert object to primitive value")

\* The promise of an async function: a return fulfils it, a throw rejects it.
AsyncCompletion(c) == IF c.type = "return" THEN Resolve(c.val) ELSE Reject(c.val)

-----------------------------------------------------------------------------
(* The library *)

\* fn(args) in place of fn(...args): the rest array goes in as one argument
Spread_AsOneArray(args) == <<Arr(args)>>

\* fn(...args): the argument list the underlying function is called with
Spread(args) == [i \in 1..Len(args) |-> args[i]]

\* `err instanceof Error ? err : null`: a thrown non-Error is dropped
wrapFunctionCatch_DropsNonError(err, fresh) ==
    IF InstanceOfError(err) THEN Return(ResultTuple(Null, err))
    ELSE Return(ResultTuple(Null, Null))

\* catch (err) { return [null, err instanceof Error ? err : new Error(String(err))]; }
\* fresh is the reference a newly constructed object gets.
wrapFunctionCatch(err, fresh) ==
    IF InstanceOfError(err) THEN Return(ResultTuple(Null, err))
    ELSE IF StringThrows(err) THEN Throw(ConversionError(fresh))
    ELSE Return(ResultTuple(Null, ErrorObj(fresh, "Error", String(err))))

wrapAsyncFunctionCatch(err, fresh) ==
    IF InstanceOfError(err) THEN Return(ResultTuple(Null, err))
    ELSE IF StringThrows(err) THEN Throw(ConversionError(fresh))
    ELSE Return(ResultTuple(Null, ErrorObj(fresh, "Error", String(err))))

\* `new Error(String(err))` without the instanceof test: an Error is re-wrapped
attemptCatch_AlwaysWraps(err, fresh) ==
    IF StringThrows(err) THEN Throw(ConversionError(fresh))
    ELSE Return(ResultTuple(Null, ErrorObj(fresh, "Error", String(err))))

attemptCatch(err, fresh) ==
    IF InstanceOfError(err) THEN Return(ResultTuple(Null, err))
    ELSE IF StringThrows(err) THEN Throw(ConversionError(fresh))
    ELSE Return(ResultTuple(Null, ErrorObj(fresh, "Error", String(err))))

\* `new Error('Unknown error')` for a rejected non-Error, unlike attempt
attemptAsyncCatch_GenericMessage(err, fresh) ==
    IF InstanceOfError(err) THEN Return(ResultTuple(Null, err))
    ELSE Return(ResultTuple(Null, ErrorObj(fresh, "Error", "Unknown error")))

attemptAsyncCatch(err, fresh) ==
    IF InstanceOfError(err) THEN Return(ResultTuple(Null, err))
    ELSE IF StringThrows(err) THEN Throw(ConversionError(fresh))
    ELSE Return(ResultTuple(Null, ErrorObj(fresh, "Error", String(err))))

\* The body of the function wrapFunction returns, given how fn(...args) ended.
wrapFunctionResult(o, fresh) ==
    IF o.type = "return" THEN Return(ResultTuple(o.val, Null))
    ELSE wrapFunctionCatch(o.val, fresh)

\* The body of attempt, given how fn() ended.
attemptResult(o, fresh) ==
    IF o.type = "return" THEN Return(ResultTuple(o.val, Null))
    ELSE attemptCatch(o.val, fresh)

\* `return [null, result]`: the awaited value lands in the error slot
wrapAsyncFunctionResult_Swapped(o, fresh) ==
    AsyncCompletion(IF o.type = "resolve" THEN Return(ResultTuple(Null, o.val))
                    ELSE wrapAsyncFunctionCatch(o.val, fresh))

\* The body of the async function wrapAsyncFunction returns, from the point
\* where `await fn(...args)` yields: o is "resolve" (the awaited value), or
\* "reject"/"throw" (the await, or the call itself, threw).
wrapAsyncFunctionResult(o, fresh) ==
    AsyncCompletion(IF o.type = "resolve" THEN Return(ResultTuple(o.val, Null))
                    ELSE wrapAsyncFunctionCatch(o.val, fresh))

\* The body of attemptAsync, from the point where `await fn()` yields.
attemptAsyncResult(o, fresh) ==
    AsyncCompletion(IF o.type = "resolve" THEN Return(ResultTuple(o.val, Null))
                    ELSE attemptAsyncCatch(o.val, fresh))

\* ok(value)
okResult(value) == ResultTuple(value, Null)

\* `new Error(String(error))` whatever error is: an Error is re-wrapped
failResult_AlwaysNew(error, fresh) ==
    ResultTuple(Null, ErrorObj(fresh, "Error", String(error)))

\* fail(error)
failResult(error, fresh) ==
    LET err == IF TypeOf(error) = "string" THEN ErrorObj(fresh, "Error", error.str) ELSE error
    IN ResultTuple(Null, err)

-----------------------------------------------------------------------------
(* The form validation example of the README *)

MinPasswordLength == 8

validateForm(formData, fresh) ==
    IF Not(Get(formData, "email")) THEN failResult(Str("Email is required"), fresh)
    ELSE IF \/ Not(Get(formData, "password"))
            \/ Len(Get(formData, "password").str) < MinPasswordLength
         THEN failResult(Str("Password must be at least 8 characters"), fresh)
    ELSE okResult(formData)

\* handleSubmit's branch on the pair safeValidateForm returned:
\* `if (validationError) { showErrorMessage(...); return; } submitToServer(validData)`
handleSubmit(pair) ==
    IF ~Not(pair.items[2]) THEN "showErrorMessage" ELSE "submitToServer"

-----------------------------------------------------------------------------
(* What the caller passes in, and how the underlying operation may end *)

\* Arguments of a wrapped call: add(2, 3), divide(10, 0), fetchData('123')
ArgValues == {Num(2), Str("123")}
ArgLists == UNION {[1..n -> ArgValues] : n \in 0..MaxArgs}

\* Values the underlying operation may return or resolve to
ReturnValues ==
    { Num(5), Str("success"), Null, Undefined,
      PlainObject(6, [id |-> Str("123"), name |-> Str("Test")]) }

\* Error instances the underlying operation may throw or reject with
ThrownErrors ==
    { ErrorObj(1, "Error", "Division by zero"),
      ErrorObj(2, "Error", "Network error"),
      ErrorObj(3, "SyntaxError", "Unexpected token i in JSON at position 1") }

\* Other values it may throw or reject with
ThrownNonErrors ==
    { Str("boom"), Str(""), Num(42), Num(0 - 7), Null, Undefined,
      PlainObject(4, <<>>), BareObject(5), Arr(<<Num(1), Null, Str("a")>>),
      Arr(<<BareObject(5)>>) }

ThrownValues == ThrownErrors \cup ThrownNonErrors

\* How a synchronous fn(...args) may end
SyncOutcomes == {Return(v) : v \in ReturnValues} \cup {Throw(x) : x \in ThrownValues}

\* How the promise an asynchronous fn(...args) returned may settle
Settlements == {Resolve(v) : v \in ReturnValues} \cup {Reject(x) : x \in ThrownValues}

\* What an asynchronous fn(...args) may do at the call: throw before it has a
\* promise, return a pending promise, or return one that is already settled
AsyncBehaviours == {Throw(x) : x \in ThrownValues} \cup {Pending} \cup Settlements

\* ok(value) and fail(error: Error | string)
OkInputs == ReturnValues
FailInputs == ThrownErrors \cup {Str("Invalid email format"), Str("Test error"), Str("")}

\* formData objects handed to the README's safeValidateForm
Forms ==
    { PlainObject(7, <<>>),
      PlainObject(8, [email |-> Str(""), password |-> Str("correct horse")]),
      PlainObject(9, [email |-> Str("a@b.c")]),
      PlainObject(10, [email |-> Str("a@b.c"), password |-> Str("short")]),
      PlainObject(11, [email |-> Str("a@b.c"), password |-> Str("correct horse")]) }

\* The concurrent callers' inputs
ConcurrentArgLists == {<<Str("123")>>}
ConcurrentSettlements ==
    { Resolve(Num(5)), Resolve(Str("success")),
      Reject(ErrorObj(1, "Error", "Division by zero")), Reject(Str("boom")),
      Reject(BareObject(5)) }
ConcurrentBehaviours == {Throw(ErrorObj(2, "Error", "Network error")), Pending}

\* References of the objects the callers made
UserRefs ==
    UNION {RefsOf(v) : v \in ReturnValues \cup ThrownValues \cup FailInputs \cup Forms}

-----------------------------------------------------------------------------
(* State: one frame per call slot *)

IdleFrame ==
    [ pc |-> "idle", op |-> "none", fn |-> "none", args |-> <<>>, received |-> <<>>,
      under |-> None, completion |-> None ]

\* References in use: the callers' objects and whatever the frames hold
UsedRefs ==
    UserRefs \cup UNION {RefsOf(frames[c].under.val) \cup RefsOf(frames[c].completion.val) : c \in Calls}

\* The reference of the next newly constructed object, not used by `taken`
FreshRef(taken) ==
    LET used == UsedRefs \cup taken
    IN CHOOSE r \in 1..(Cardinality(used) + 1) :
          r \notin used /\ \A q \in 1..(r - 1) : q \in used

\* The sequential caller's slot
MainCall == CHOOSE c \in Calls : \A d \in Calls : c <= d

\* A slot can take a new call when no call is running in it
Free(c) == frames[c].pc \in {"idle", "done"}

Init == frames = [c \in Calls |-> IdleFrame]

\* The awaited promise kept in one place shared by all calls
Awaited_Shared(c) == frames[MainCall].under

\* What `await` yields in frame c: the settlement of the promise fn returned
\* to this very call
Awaited(c) == frames[c].under

-----------------------------------------------------------------------------
(* Operations *)

\* wrapFunction(fn)(...args), where fn(...args) ends as o
wrapFunction(c, fn, args, o) ==
    /\ Free(c)
    /\ frames' = [frames EXCEPT ![c] =
          [ pc |-> "done", op |-> "wrapFunction", fn |-> fn, args |-> args,
            received |-> <<Spread(args)>>, under |-> o,
            completion |-> wrapFunctionResult(o, FreshRef(RefsOf(o.val))) ]]

\* attempt(fn), where fn() ends as o
attempt(c, o) ==
    /\ Free(c)
    /\ frames' = [frames EXCEPT ![c] =
          [ pc |-> "done", op |-> "attempt", fn |-> "fn", args |-> <<>>,
            received |-> <<<<>>>>, under |-> o,
            completion |-> attemptResult(o, FreshRef(RefsOf(o.val))) ]]

\* ok(value)
ok(c, value) ==
    /\ Free(c)
    /\ frames' = [frames EXCEPT ![c] =
          [ pc |-> "done", op |-> "ok", fn |-> "none", args |-> <<value>>,
            received |-> <<>>, under |-> None,
            completion |-> Return(okResult(value)) ]]

\* fail(error)
fail(c, error) ==
    /\ Free(c)
    /\ frames' = [frames EXCEPT ![c] =
          [ pc |-> "done", op |-> "fail", fn |-> "none", args |-> <<error>>,
            received |-> <<>>, under |-> None,
            completion |-> Return(failResult(error, FreshRef({}))) ]]

\* safeValidateForm(formData), with safeValidateForm = wrapFunction(validateForm)
safeValidateForm(c, formData) ==
    wrapFunction(c, "validateForm", <<formData>>, Return(validateForm(formData, FreshRef({}))))

\* wrapAsyncFunction(fn)(...args) up to its first suspension: fn(...args)
\* either throws, and the async function completes at once, or returns a
\* promise, and the frame suspends at the await
wrapAsyncFunction(c, args, b) ==
    /\ Free(c)
    /\ frames' = [frames EXCEPT ![c] =
          [ pc |-> CASE b.type = "throw" -> "done"
                     [] b.type = "pending" -> "awaiting"
                     [] OTHER -> "settled",
            op |-> "wrapAsyncFunction", fn |-> "fn", args |-> args,
            received |-> <<Spread(args)>>, under |-> b,
            completion |-> IF b.type = "throw"
                           THEN wrapAsyncFunctionResult(b, FreshRef(RefsOf(b.val)))
                           ELSE Pending ]]

\* attemptAsync(fn) up to its first suspension
attemptAsync(c, b) ==
    /\ Free(c)
    /\ frames' = [frames EXCEPT ![c] =
          [ pc |-> CASE b.type = "throw" -> "done"
                     [] b.type = "pending" -> "awaiting"
                     [] OTHER -> "settled",
            op |-> "attemptAsync", fn |-> "fn", args |-> <<>>,
            received |-> <<<<>>>>, under |-> b,
            completion |-> IF b.type = "throw"
                           THEN attemptAsyncResult(b, FreshRef(RefsOf(b.val)))
                           ELSE Pending ]]

\* The promise the underlying operation returned to call c settles
Settle(c, s) ==
    /\ frames[c].pc = "awaiting"
    /\ frames' = [frames EXCEPT ![c].pc = "settled", ![c].under = s]

\* The frame of wrapAsyncFunction's async function resumes after the await
wrapAsyncFunctionResume(c) ==
    /\ frames[c].pc = "settled"
    /\ frames[c].op = "wrapAsyncFunction"
    /\ frames' = [frames EXCEPT ![c].pc = "done",
                                ![c].completion = wrapAsyncFunctionResult(Awaited(c), FreshRef({}))]

\* The frame of attemptAsync resumes after the await
attemptAsyncResume(c) ==
    /\ frames[c].pc = "settled"
    /\ frames[c].op = "attemptAsync"
    /\ frames' = [frames EXCEPT ![c].pc = "done",
                                ![c].completion = attemptAsyncResult(Awaited(c), FreshRef({}))]

-----------------------------------------------------------------------------
(* A caller that makes one call at a time, with every kind of input *)

Next ==
    \/ \E args \in ArgLists, o \in SyncOutcomes : wrapFunction(MainCall, "fn", args, o)
    \/ \E o \in SyncOutcomes : attempt(MainCall, o)
    \/ \E v \in OkInputs : ok(MainCall, v)
    \/ \E e \in FailInputs : fail(MainCall, e)
    \/ \E f \in Forms : safeValidateForm(MainCall, f)
    \/ \E args \in ArgLists, b \in AsyncBehaviours : wrapAsyncFunction(MainCall, args, b)
    \/ \E b \in AsyncBehaviours : attemptAsync(MainCall, b)
    \/ \E s \in Settlements : Settle(MainCall, s)
    \/ wrapAsyncFunctionResume(MainCall)
    \/ attemptAsyncResume(MainCall)

Spec == Init /\ [][Next]_vars

(* Callers that keep several asynchronous calls in flight at once *)

NextConcurrent ==
    \E c \in Calls :
        \/ \E args \in ConcurrentArgLists, b \in ConcurrentBehaviours : wrapAsyncFunction(c, args, b)
        \/ \E b \in ConcurrentBehaviours : attemptAsync(c, b)
        \/ \E s \in ConcurrentSettlements : Settle(c, s)
        \/ wrapAsyncFunctionResume(c)
        \/ attemptAsyncResume(c)

SpecConcurrent == Init /\ [][NextConcurrent]_vars

-----------------------------------------------------------------------------
(* Vocabulary of the properties *)

SyncOps == {"wrapFunction", "attempt"}
AsyncOps == {"wrapAsyncFunction", "attemptAsync"}
WrapperOps == SyncOps \cup AsyncOps

Done(c) == frames[c].pc = "done"

\* A finished call of one of the four wrappers
WrapperDone(c) == Done(c) /\ frames[c].op \in WrapperOps

\* The underlying operation completed normally / abnormally
CompletedNormally(c) == frames[c].under.type \in {"return", "resolve"}
CompletedAbnormally(c) == frames[c].under.type \in {"throw", "reject"}

\* The call handed a pair to its caller: a sync call returned it, an async
\* call's promise fulfilled with it
Delivered(c, pair) ==
    frames[c].completion =
        (IF frames[c].op \in AsyncOps THEN Resolve(pair) ELSE Return(pair))

\* The call ended by handing some value (a pair) to its caller rather than
\* by a throw or a rejection
Yielded(c) == frames[c].completion.type = (IF frames[c].op \in AsyncOps THEN "resolve" ELSE "return")

ValueSlot(c) == frames[c].completion.val.items[1]
ErrorSlot(c) == frames[c].completion.val.items[2]

\* A slot holds something other than null/undefined
Populated(x) == x.kind \notin {"null", "undefined"}

\* An Error object the library constructed itself, with message m
NewErrorWith(e, m) ==
    /\ InstanceOfError(e)
    /\ e.name = "Error"
    /\ e.message = m
    /\ e.ref \notin UserRefs

-----------------------------------------------------------------------------
\* C1: whenever the underlying operation completes normally with value v
\* (returned, or resolved to), wrapFunction and attempt return [v, null] and
\* wrapAsyncFunction and attemptAsync resolve to [v, null].
C1_SuccessPair ==
    \A c \in Calls :
        WrapperDone(c) /\ CompletedNormally(c)
            => Delivered(c, ResultTuple(frames[c].under.val, Null))

C1_Witness ==
    \E c \in Calls :
        /\ Done(c) /\ frames[c].op = "wrapAsyncFunction"
        /\ frames[c].under = Resolve(PlainObject(6, [id |-> Str("123"), name |-> Str("Test")]))
        /\ ErrorSlot(c) = Null

\* C2: no abnormal completion of the underlying operation gets past the
\* wrapper: a call of wrapFunction(fn) or attempt never throws and the promise
\* of wrapAsyncFunction(fn) or attemptAsync never rejects, whatever was thrown.
C2_NeverThrows ==
    \A c \in Calls : WrapperDone(c) => Yielded(c)

\* C3: when the underlying operation throws or rejects with an Error instance
\* e, the pair is [null, e] with the very same object e in the error slot.
C3_ErrorIdentity ==
    \A c \in Calls :
        WrapperDone(c) /\ CompletedAbnormally(c) /\ InstanceOfError(frames[c].under.val)
            => Delivered(c, ResultTuple(Null, frames[c].under.val))

C3_Witness ==
    \E c \in Calls :
        /\ Done(c) /\ frames[c].op = "attempt"
        /\ frames[c].under = Throw(ErrorObj(3, "SyntaxError", "Unexpected token i in JSON at position 1"))
        /\ ErrorSlot(c).ref = frames[c].under.val.ref

\* C4: when the underlying operation throws or rejects with a value x that is
\* not an Error instance, the pair is [null, e'] with e' a newly constructed
\* Error whose message is String(x).
C4_NonErrorWrapped ==
    \A c \in Calls :
        WrapperDone(c) /\ CompletedAbnormally(c) /\ ~InstanceOfError(frames[c].under.val)
            => /\ Yielded(c)
               /\ ~StringThrows(frames[c].under.val)
               /\ ValueSlot(c) = Null
               /\ NewErrorWith(ErrorSlot(c), String(frames[c].under.val))

\* C5 as stated: every pair any of the six operations produces has exactly one
\* populated slot, never both populated and never both null/absent.
C5_ExactlyOnePopulated ==
    \A c \in Calls :
        Done(c) /\ Yielded(c)
            => (Populated(ValueSlot(c)) /\ ~Populated(ErrorSlot(c)))
               \/ (~Populated(ValueSlot(c)) /\ Populated(ErrorSlot(c)))

\* C5 as amended: no pair has both slots populated; a pair that stands for a
\* failure (fail, or the underlying operation threw or rejected) has a null
\* value slot and an Error in its error slot; a pair that stands for a success
\* has a null error slot and the success value in its value slot, so both
\* slots are null/absent exactly when that value is itself null or undefined.
C5_SlotsExclusive ==
    \A c \in Calls :
        Done(c) /\ Yielded(c)
            => LET failure == frames[c].op = "fail" \/ CompletedAbnormally(c)
                   success == IF frames[c].op = "ok" THEN frames[c].args[1] ELSE frames[c].under.val
               IN /\ ~(Populated(ValueSlot(c)) /\ Populated(ErrorSlot(c)))
                  /\ failure => ValueSlot(c) = Null /\ InstanceOfError(ErrorSlot(c))
                  /\ ~failure => ErrorSlot(c) = Null /\ ValueSlot(c) = success
                  /\ (~Populated(ValueSlot(c)) /\ ~Populated(ErrorSlot(c)))
                        <=> (~failure /\ ~Populated(success))

C5_Witness ==
    \E c \in Calls :
        /\ Done(c) /\ frames[c].op = "ok" /\ frames[c].args = <<Null>>
        /\ ValueSlot(c) = Null /\ ErrorSlot(c) = Null

\* C6: fail(e) with e an Error instance returns [null, e] holding the same
\* object; fail(msg) with msg a string returns [null, e'] with e' a new Error
\* whose message is msg; the value slot of fail's pair is never populated.
C6_Fail ==
    \A c \in Calls :
        Done(c) /\ frames[c].op = "fail"
            => LET error == frames[c].args[1]
               IN /\ frames[c].completion.type = "return"
                  /\ ValueSlot(c) = Null
                  /\ InstanceOfError(error) => ErrorSlot(c) = error
                  /\ error.kind = "string" => NewErrorWith(ErrorSlot(c), error.str)

C6_Witness ==
    \E c \in Calls :
        /\ Done(c) /\ frames[c].op = "fail" /\ frames[c].args = <<Str("Invalid email format")>>
        /\ ErrorSlot(c).message = "Invalid email format"

\* C7: one call of wrapFunction(fn)(a1, ..., an) or
\* wrapAsyncFunction(fn)(a1, ..., an) invokes fn exactly once, with exactly
\* (a1, ..., an): same count, same order, same values.
C7_ArgumentsForwarded ==
    \A c \in Calls :
        frames[c].op \in {"wrapFunction", "wrapAsyncFunction"}
            => /\ Len(frames[c].received) = 1
               /\ Len(frames[c].received[1]) = Len(frames[c].args)
               /\ \A i \in 1..Len(frames[c].args) : frames[c].received[1][i] = frames[c].args[i]

C7_Witness ==
    \E c \in Calls :
        /\ frames[c].op = "wrapAsyncFunction"
        /\ frames[c].args = <<Num(2), Str("123")>>
        /\ frames[c].received = <<frames[c].args>>

\* C8: when validateForm, which reports failure by returning fail(msg) and
\* success by returning ok(data), is wrapped with wrapFunction, the pair of
\* the wrapped call has, for invalid input, a non-null Error with message msg
\* in its error slot (so `if (validationError)` is taken) and, for valid
\* input, the validated data in its value slot and null in its error slot.
C8_ValidationExposed ==
    \A c \in Calls :
        Done(c) /\ frames[c].fn = "validateForm"
            => LET returned == frames[c].under.val.items
               IN IF Populated(returned[2])
                  THEN /\ InstanceOfError(ErrorSlot(c))
                       /\ ErrorSlot(c).message = returned[2].message
                       /\ handleSubmit(frames[c].completion.val) = "showErrorMessage"
                  ELSE /\ ValueSlot(c) = returned[1]
                       /\ ErrorSlot(c) = Null

-----------------------------------------------------------------------------
(* Comparing what two calls hand back: the same values, where an object the
   library constructed for the call (a new Error) matches another such object
   of the same name and message *)

SameValue(a, b) ==
    \/ a = b
    \/ /\ InstanceOfError(a) /\ InstanceOfError(b)
       /\ a.ref \notin UserRefs /\ b.ref \notin UserRefs
       /\ a.name = b.name /\ a.message = b.message

SameSettlement(x, y) ==
    /\ x.type = y.type
    /\ IF x.type = "resolve"
       THEN /\ SameValue(x.val.items[1], y.val.items[1])
            /\ SameValue(x.val.items[2], y.val.items[2])
       ELSE SameValue(x.val, y.val)

\* The same underlying outcome, seen by a synchronous / an asynchronous caller
AsSync(o) == IF o.type \in {"return", "resolve"} THEN Return(o.val) ELSE Throw(o.val)
AsAsync(o) == IF o.type \in {"return", "resolve"} THEN Resolve(o.val) ELSE Reject(o.val)

\* C9: the synchronous and asynchronous variants differ in timing only: for
\* every underlying outcome (normal completion with v, abnormal completion
\* with x), what wrapFunction / attempt returns is what wrapAsyncFunction /
\* attemptAsync resolves to for the same outcome, slot for slot.
C9_SyncAsyncAgree ==
    \A c \in Calls :
        WrapperDone(c)
            => LET o == frames[c].under
                   fresh == FreshRef({})
                   mine == IF frames[c].op \in SyncOps
                           THEN AsyncCompletion(frames[c].completion)
                           ELSE frames[c].completion
                   counterpart ==
                       CASE frames[c].op = "wrapFunction" -> wrapAsyncFunctionResult(AsAsync(o), fresh)
                         [] frames[c].op = "attempt" -> attemptAsyncResult(AsAsync(o), fresh)
                         [] frames[c].op = "wrapAsyncFunction" -> AsyncCompletion(wrapFunctionResult(AsSync(o), fresh))
                         [] frames[c].op = "attemptAsync" -> AsyncCompletion(attemptResult(AsSync(o), fresh))
               IN SameSettlement(mine, counterpart)

C9_Witness ==
    \E c \in Calls :
        /\ Done(c) /\ frames[c].op = "attemptAsync"
        /\ frames[c].under = Reject(Num(42))
        /\ ErrorSlot(c).message = "42"

\* C10: with several asynchronous calls in flight and their underlying
\* operations settling in any order, what each call's promise settles with is
\* decided by the outcome of its own underlying call alone: [v, null] when it
\* resolved to v, [null, e] when it rejected with the Error e, [null, e'] with
\* a new Error e' of message String(x) when it rejected with another value x
\* (a TypeError of the call's own when String(x) throws); no call is handed
\* the object constructed for another call.
C10_OwnOutcome ==
    \A c \in Calls :
        Done(c)
            => LET o == frames[c].under
               IN /\ o.type = "resolve" => Delivered(c, ResultTuple(o.val, Null))
                  /\ o.type # "resolve" /\ InstanceOfError(o.val)
                        => Delivered(c, ResultTuple(Null, o.val))
                  /\ o.type # "resolve" /\ ~InstanceOfError(o.val) /\ ~StringThrows(o.val)
                        => /\ Yielded(c)
                           /\ ValueSlot(c) = Null
                           /\ NewErrorWith(ErrorSlot(c), String(o.val))
                  /\ o.type # "resolve" /\ StringThrows(o.val)
                        => /\ frames[c].completion.type = "reject"
                           /\ frames[c].completion.val.ref \notin UserRefs
                  /\ \A d \in Calls \ {c} :
                        Done(d) => RefsOf(frames[c].completion.val) \cap RefsOf(frames[d].completion.val)
                                      \subseteq UserRefs

C10_Witness ==
    \E c, d \in Calls :
        /\ c # d
        /\ Done(c) /\ frames[c].under = Reject(Str("boom")) /\ ErrorSlot(c).message = "boom"
        /\ frames[d].pc = "settled" /\ frames[d].under = Resolve(Num(5))

====
